---- MODULE Spec2Model ----
(***************************************************************************)
(* Model of src-tauri/src/lib.rs: the Wordle-answer and Sudoku-puzzle       *)
(* extraction core.                                                         *)
(*                                                                          *)
(* Text is a sequence of characters.  A character is a one-character        *)
(* string; a non-ASCII character is written by its code point ("U+00E9").   *)
(* A Result<T, String> is a record [tag |-> "ok", val |-> v] or             *)
(* [tag |-> "err", msg |-> m], where m is the tuple of the pieces that      *)
(* format! concatenates.  An Option<T> is [tag |-> "some", val |-> v] or    *)
(* [tag |-> "none"].                                                        *)
(***************************************************************************)
EXTENDS Integers, Sequences, FiniteSets, TLC

VARIABLES pc, op, arg, res, gets, ran, today

vars == <<pc, op, arg, res, gets, ran, today>>

\* ------------------------------------------------------------- bounds

\* text pieces concatenated into one format_puzzle_label input
MaxLabelPieces == 3
\* text pieces concatenated into one extract_game_data_blob input
MaxBlobPieces == 5
\* text nodes of one element
MaxNodes == 3
\* elements of a board array that differ from the base pattern
MaxOverrides == 2
\* rows of the answers table
MaxRows == 3

\* ------------------------------------------------------ Result, Option

None == [tag |-> "none"]
Some(v) == [tag |-> "some", val |-> v]
Ok(v) == [tag |-> "ok", val |-> v]
Err(m) == [tag |-> "err", msg |-> m]
\* the call has not returned yet
Pending == [tag |-> "pending"]

\* ---------------------------------------------------------- characters

Range(s) == {s[i] : i \in 1..Len(s)}

LowerAlpha ==
  <<"a","b","c","d","e","f","g","h","i","j","k","l","m",
    "n","o","p","q","r","s","t","u","v","w","x","y","z">>

UpperAlpha ==
  <<"A","B","C","D","E","F","G","H","I","J","K","L","M",
    "N","O","P","Q","R","S","T","U","V","W","X","Y","Z">>

\* char::is_whitespace: the Unicode White_Space characters the model uses
WhiteSpace == {" ", "\t", "\n", "\r", "\f", "U+00A0"}

is_whitespace(c) == c \in WhiteSpace

is_ascii_alphabetic(c) == c \in Range(LowerAlpha) \cup Range(UpperAlpha)

\* the UTF-8 width of a character: str::len counts bytes
utf8_len(c) == IF c \in {"U+00A0", "U+00E9", "U+00C9"} THEN 2 ELSE 1

RECURSIVE str_len(_)
str_len(s) == IF s = <<>> THEN 0 ELSE utf8_len(Head(s)) + str_len(Tail(s))

char_to_ascii_lowercase(c) ==
  IF c \in Range(UpperAlpha)
  THEN LowerAlpha[CHOOSE i \in 1..26 : UpperAlpha[i] = c]
  ELSE c

\* char::to_uppercase (Unicode): ASCII letters and the accented letter of the model
char_to_uppercase(c) ==
  IF c \in Range(LowerAlpha)
  THEN UpperAlpha[CHOOSE i \in 1..26 : LowerAlpha[i] = c]
  ELSE IF c = "U+00E9" THEN "U+00C9" ELSE c

to_ascii_lowercase(s) == [i \in 1..Len(s) |-> char_to_ascii_lowercase(s[i])]

to_uppercase(s) == [i \in 1..Len(s) |-> char_to_uppercase(s[i])]

\* ------------------------------------------------------------- strings

RECURSIVE trim_start(_)
trim_start(s) ==
  IF s = <<>> \/ ~is_whitespace(Head(s)) THEN s ELSE trim_start(Tail(s))

RECURSIVE trim_end(_)
trim_end(s) ==
  IF s = <<>> \/ ~is_whitespace(s[Len(s)]) THEN s
  ELSE trim_end(SubSeq(s, 1, Len(s) - 1))

trim(s) == trim_end(trim_start(s))

\* str::trim_end_matches(c): every trailing c is removed, not only one
RECURSIVE trim_end_matches(_, _)
trim_end_matches(s, c) ==
  IF s = <<>> \/ s[Len(s)] # c THEN s
  ELSE trim_end_matches(SubSeq(s, 1, Len(s) - 1), c)

starts_with(s, p) == Len(s) >= Len(p) /\ SubSeq(s, 1, Len(p)) = p

\* str::find(pat) scanning from offset i (0-based): Some(offset of the
\* leftmost occurrence at or after i) or None
RECURSIVE find_from(_, _, _)
find_from(s, pat, i) ==
  IF i + Len(pat) > Len(s) THEN None
  ELSE IF SubSeq(s, i + 1, i + Len(pat)) = pat THEN Some(i)
  ELSE find_from(s, pat, i + 1)

find(s, pat) == find_from(s, pat, 0)

contains(s, pat) == find(s, pat).tag = "some"

\* &s[i..] and &s[..j] with 0-based offsets
slice_from(s, i) == SubSeq(s, i + 1, Len(s))
slice_to(s, j) == SubSeq(s, 1, j)

RECURSIVE Concat(_)
Concat(ss) == IF ss = <<>> THEN <<>> ELSE Head(ss) \o Concat(Tail(ss))

\* sequences over S of length at most n
SeqsUpTo(S, n) == UNION {[1..k -> S] : k \in 0..n}

\* ------------------------------------------------- format_puzzle_label

StrWordle == <<"W","o","r","d","l","e">>
StrWordleLower == <<"w","o","r","d","l","e">>

format_puzzle_label_untrimmed(raw) ==
  LET trimmed == trim(raw)
      lower == to_ascii_lowercase(trimmed)
  IN IF trimmed = <<>> THEN StrWordle
     ELSE IF contains(lower, StrWordleLower) THEN raw
     ELSE IF starts_with(trimmed, <<"#">>) THEN StrWordle \o <<" ">> \o raw
     ELSE StrWordle \o <<" ", "#">> \o raw

format_puzzle_label_hash_unchanged(raw) ==
  LET trimmed == trim(raw)
      lower == to_ascii_lowercase(trimmed)
  IN IF trimmed = <<>> THEN StrWordle
     ELSE IF contains(lower, StrWordleLower) THEN trimmed
     ELSE IF starts_with(trimmed, <<"#">>) THEN trimmed
     ELSE StrWordle \o <<" ", "#">> \o trimmed

format_puzzle_label(raw) ==
  LET trimmed == trim(raw)
      lower == to_ascii_lowercase(trimmed)
  IN IF trimmed = <<>> THEN StrWordle
     ELSE IF contains(lower, StrWordleLower) THEN trimmed
     ELSE IF starts_with(trimmed, <<"#">>) THEN StrWordle \o <<" ">> \o trimmed
     ELSE StrWordle \o <<" ", "#">> \o trimmed

LabelPieces ==
  { <<" ">>, <<"\t">>, <<"#">>, <<"1","2","3","4">>, <<"9","9","9">>,
    <<"W","o","r","d","l","e"," ">>, <<"w","O","R","d","L","E">>,
    <<"w","o","r","d","l">>, <<"e">> }

LabelInputs == {Concat(ps) : ps \in SeqsUpTo(LabelPieces, MaxLabelPieces)}

InitLabel ==
  /\ pc = "call"
  /\ op = "format_puzzle_label"
  /\ arg \in LabelInputs
  /\ res = Pending
  /\ gets = 0
  /\ ran = <<>>
  /\ today = <<>>

CallFormatPuzzleLabel ==
  /\ pc = "call"
  /\ op = "format_puzzle_label"
  /\ res' = Ok(format_puzzle_label(arg))
  /\ pc' = "done"
  /\ UNCHANGED <<op, arg, gets, ran, today>>

NextLabel == CallFormatPuzzleLabel

SpecLabel == InitLabel /\ [][NextLabel]_vars

\* --- claims about format_puzzle_label

Str1234 == <<"1","2","3","4">>
StrHash1234 == <<"#","1","2","3","4">>
StrWordle999 == <<"W","o","r","d","l","e"," ","#","9","9","9">>

\* t with leading and trailing whitespace removed, stated by its position in s
IsTrimOf(t, s) ==
  \/ /\ t = <<>>
     /\ \A i \in 1..Len(s) : s[i] \in WhiteSpace
  \/ \E a, b \in 1..Len(s) :
       /\ a <= b
       /\ t = SubSeq(s, a, b)
       /\ s[a] \notin WhiteSpace /\ s[b] \notin WhiteSpace
       /\ \A i \in 1..Len(s) : (i < a \/ i > b) => s[i] \in WhiteSpace

\* s holds "wordle" in any mix of upper and lower case
HoldsWordleAnyCase(s) ==
  \E i \in 1..Len(s) - 5 :
    \A k \in 1..6 : s[i + k - 1] \in {StrWordleLower[k], UpperAlpha[CHOOSE j \in 1..26 : LowerAlpha[j] = StrWordleLower[k]]}

\* which of the four branches of the rule applies to the trimmed text t
LabelBranch(t) ==
  IF t = <<>> THEN 1
  ELSE IF HoldsWordleAnyCase(t) THEN 2
  ELSE IF t[1] = "#" THEN 3
  ELSE 4

\* C5: format_puzzle_label follows the four-branch rule, tried in order on the
\* trimmed input: empty gives "Wordle"; containing "wordle" (any case) gives
\* the trimmed text unchanged; starting with '#' gives "Wordle " followed by
\* it; anything else gives "Wordle #" followed by it.
C5_FourBranchRule ==
  (pc = "done" /\ op = "format_puzzle_label") =>
    \E t \in {SubSeq(arg, a, b) : a \in 1..Len(arg) + 1, b \in 0..Len(arg)} :
      /\ IsTrimOf(t, arg)
      /\ res.tag = "ok"
      /\ CASE LabelBranch(t) = 1 -> res.val = <<"W","o","r","d","l","e">>
           [] LabelBranch(t) = 2 -> res.val = t
           [] LabelBranch(t) = 3 -> res.val = <<"W","o","r","d","l","e"," ">> \o t
           [] LabelBranch(t) = 4 -> res.val = <<"W","o","r","d","l","e"," ","#">> \o t

\* an input with surrounding whitespace that contains "wordle" in mixed case
\* has been formatted
C5_Witness ==
  /\ pc = "done" /\ op = "format_puzzle_label"
  /\ arg = <<" ", "w","O","R","d","L","E", "\t">>
  /\ res = Ok(<<"w","O","R","d","L","E">>)

\* C6 as stated: "#1234" is returned unchanged.
C6_HashUnchanged ==
  (pc = "done" /\ op = "format_puzzle_label" /\ arg = StrHash1234) =>
    res = Ok(StrHash1234)

\* C6 amended: an input that starts with '#' and does not contain "wordle"
\* gets the prefix "Wordle " ("#1234" gives "Wordle #1234"); "" gives
\* "Wordle", "1234" gives "Wordle #1234", "Wordle #999" is unchanged.
C6_HashGetsPrefix ==
  (pc = "done" /\ op = "format_puzzle_label") =>
    /\ (arg # <<>> /\ arg[1] = "#" /\ ~HoldsWordleAnyCase(arg)) =>
         /\ res.tag = "ok"
         /\ Len(res.val) > 7
         /\ SubSeq(res.val, 1, 7) = <<"W","o","r","d","l","e"," ">>
         /\ IsTrimOf(SubSeq(res.val, 8, Len(res.val)), arg)
    /\ arg = StrHash1234 => res = Ok(<<"W","o","r","d","l","e"," ","#","1","2","3","4">>)
    /\ arg = <<>> => res = Ok(<<"W","o","r","d","l","e">>)
    /\ arg = Str1234 => res = Ok(<<"W","o","r","d","l","e"," ","#","1","2","3","4">>)
    /\ arg = StrWordle999 => res = Ok(StrWordle999)

\* "#1234" has been formatted
C6_Witness ==
  /\ pc = "done" /\ op = "format_puzzle_label"
  /\ arg = StrHash1234
  /\ res.tag = "ok"

\* ---------------------------------------------- extract_game_data_blob

MARKER ==
  <<"w","i","n","d","o","w",".","g","a","m","e","D","a","t","a"," ","="," ">>

StrScriptEnd == <<"<","/","s","c","r","i","p","t",">">>

MsgMarkerNotFound == <<"window.gameData marker not found">>
MsgTerminatorNotFound == <<"Unable to find </script> following window.gameData">>

\* strips one trailing c at most
strip_suffix_once(s, c) ==
  IF s # <<>> /\ s[Len(s)] = c THEN SubSeq(s, 1, Len(s) - 1) ELSE s

extract_game_data_blob_one_semicolon(html) ==
  LET start == find(html, MARKER)
  IN IF start.tag = "none" THEN Err(MsgMarkerNotFound)
     ELSE LET after_marker == slice_from(html, start.val + Len(MARKER))
              end == find(after_marker, StrScriptEnd)
          IN IF end.tag = "none" THEN Err(MsgTerminatorNotFound)
             ELSE LET raw_block == trim(slice_to(after_marker, end.val))
                  IN Ok(trim(strip_suffix_once(raw_block, ";")))

extract_game_data_blob(html) ==
  LET start == find(html, MARKER)
  IN IF start.tag = "none" THEN Err(MsgMarkerNotFound)
     ELSE LET after_marker == slice_from(html, start.val + Len(MARKER))
              end == find(after_marker, StrScriptEnd)
          IN IF end.tag = "none" THEN Err(MsgTerminatorNotFound)
             ELSE LET raw_block == trim(slice_to(after_marker, end.val))
                  IN Ok(trim(trim_end_matches(raw_block, ";")))

StrJsonA == <<"{","\"","a","\"",":","1","}">>

BlobPieces ==
  { MARKER, SubSeq(MARKER, 1, Len(MARKER) - 1), StrScriptEnd,
    <<";">>, <<" ">>, StrJsonA }

BlobInputs == {Concat(ps) : ps \in SeqsUpTo(BlobPieces, MaxBlobPieces)}

InitBlob ==
  /\ pc = "call"
  /\ op = "extract_game_data_blob"
  /\ arg \in BlobInputs
  /\ res = Pending
  /\ gets = 0
  /\ ran = <<>>
  /\ today = <<>>

CallExtractGameDataBlob ==
  /\ pc = "call"
  /\ op = "extract_game_data_blob"
  /\ res' = extract_game_data_blob(arg)
  /\ pc' = "done"
  /\ UNCHANGED <<op, arg, gets, ran, today>>

NextBlob == CallExtractGameDataBlob

SpecBlob == InitBlob /\ [][NextBlob]_vars

\* --- claims about extract_game_data_blob

SetMin(S) == CHOOSE x \in S : \A y \in S : x <= y
SetMax(S) == CHOOSE x \in S : \A y \in S : x >= y

\* the 0-based offsets at or after `from` where pat occurs in s
Occurrences(s, pat, from) ==
  {i \in from..(Len(s) - Len(pat)) : SubSeq(s, i + 1, i + Len(pat)) = pat}

\* s without its leading and trailing whitespace
Trimmed(s) ==
  LET keep == {i \in 1..Len(s) : s[i] \notin WhiteSpace}
  IN IF keep = {} THEN <<>> ELSE SubSeq(s, SetMin(keep), SetMax(keep))

\* s without its whole run of trailing semicolons
WithoutTrailingSemicolons(s) ==
  LET keep == {i \in 1..Len(s) : s[i] # ";"}
  IN IF keep = {} THEN <<>> ELSE SubSeq(s, 1, SetMax(keep))

\* s without one trailing semicolon, if it has one
WithoutOneTrailingSemicolon(s) ==
  IF Len(s) > 0 /\ s[Len(s)] = ";" THEN SubSeq(s, 1, Len(s) - 1) ELSE s

\* the text between the end of the leftmost marker and the first "</script>"
\* after it (both must exist)
BetweenMarkerAndTerminator(html) ==
  LET s == SetMin(Occurrences(html, MARKER, 0)) + Len(MARKER)
      e == SetMin(Occurrences(html, StrScriptEnd, s))
  IN SubSeq(html, s + 1, e)

MarkerAbsent(html) == Occurrences(html, MARKER, 0) = {}

TerminatorAbsent(html) ==
  /\ ~MarkerAbsent(html)
  /\ Occurrences(html, StrScriptEnd,
                 SetMin(Occurrences(html, MARKER, 0)) + Len(MARKER)) = {}

\* C4 as stated: a SINGLE trailing ';' is removed (at most one).
C4_SingleSemicolon ==
  (pc = "done" /\ op = "extract_game_data_blob"
     /\ ~MarkerAbsent(arg) /\ ~TerminatorAbsent(arg)) =>
    res = Ok(Trimmed(WithoutOneTrailingSemicolon(Trimmed(BetweenMarkerAndTerminator(arg)))))

\* C4 amended: the result is the text between the end of the leftmost marker
\* and the first "</script>" after it, trimmed, then with EVERY trailing ';'
\* removed, then trimmed again; marker-not-found when the marker is absent,
\* terminator-not-found when no "</script>" follows the marker.
C4_AllSemicolons ==
  (pc = "done" /\ op = "extract_game_data_blob") =>
    IF MarkerAbsent(arg) THEN res = Err(<<"window.gameData marker not found">>)
    ELSE IF TerminatorAbsent(arg)
    THEN res = Err(<<"Unable to find </script> following window.gameData">>)
    ELSE res = Ok(Trimmed(WithoutTrailingSemicolons(Trimmed(BetweenMarkerAndTerminator(arg)))))

\* a blob followed by two semicolons has been located
C4_Witness ==
  /\ pc = "done" /\ op = "extract_game_data_blob"
  /\ arg = MARKER \o StrJsonA \o <<";", ";">> \o StrScriptEnd
  /\ res = Ok(StrJsonA)

\* --------------------------- collect_compact_text, extract_hidden_word

\* An element is read through ElementRef::text(): the sequence of its
\* descendant text nodes in document order.

\* str::split_whitespace: the maximal runs of non-whitespace characters
RECURSIVE split_whitespace_acc(_, _, _)
split_whitespace_acc(s, cur, acc) ==
  IF s = <<>> THEN (IF cur = <<>> THEN acc ELSE Append(acc, cur))
  ELSE IF is_whitespace(Head(s))
  THEN split_whitespace_acc(Tail(s), <<>>, IF cur = <<>> THEN acc ELSE Append(acc, cur))
  ELSE split_whitespace_acc(Tail(s), Append(cur, Head(s)), acc)

split_whitespace(s) == split_whitespace_acc(s, <<>>, <<>>)

\* [T]::join(sep)
RECURSIVE join(_, _)
join(parts, sep) ==
  IF parts = <<>> THEN <<>>
  ELSE IF Len(parts) = 1 THEN parts[1]
  ELSE parts[1] \o sep \o join(Tail(parts), sep)

\* Iterator::flat_map over the text nodes
RECURSIVE flat_map_split_whitespace(_)
flat_map_split_whitespace(nodes) ==
  IF nodes = <<>> THEN <<>>
  ELSE split_whitespace(Head(nodes)) \o flat_map_split_whitespace(Tail(nodes))

collect_compact_text_concat_first(nodes) ==
  join(split_whitespace(Concat(nodes)), <<" ">>)

collect_compact_text(nodes) ==
  join(flat_map_split_whitespace(nodes), <<" ">>)

is_alphabetic_unicode(c) == is_ascii_alphabetic(c) \/ c \in {"U+00E9", "U+00C9"}

extract_hidden_word_unicode_letters(nodes) ==
  LET raw == Concat(nodes)
      normalized == SelectSeq(raw, is_alphabetic_unicode)
      word == to_uppercase(trim(normalized))
  IN IF str_len(word) = 5 THEN Some(word) ELSE None

extract_hidden_word(nodes) ==
  LET raw == Concat(nodes)
      normalized == SelectSeq(raw, is_ascii_alphabetic)
      word == to_uppercase(trim(normalized))
  IN IF str_len(word) = 5 THEN Some(word) ELSE None

StrStormMessy == <<" "," ","s","T","-","o","#","r","M"," ">>
StrTooLong == <<"t","o","o","l","o","n","g">>

TextNodes ==
  { StrStormMessy, StrTooLong, <<"1","2">>, <<"3","4">>,
    <<" ","a"," "," ","b","\n">>, <<"s","t","o">>, <<"r","m">>,
    <<"U+00E9">>, <<" ">>, <<"\t","\n">>, <<"x","U+00A0","y">> }

Elements == SeqsUpTo(TextNodes, MaxNodes)

InitText ==
  /\ pc = "call"
  /\ op \in {"collect_compact_text", "extract_hidden_word"}
  /\ arg \in Elements
  /\ res = Pending
  /\ gets = 0
  /\ ran = <<>>
  /\ today = <<>>

CallCollectCompactText ==
  /\ pc = "call"
  /\ op = "collect_compact_text"
  /\ res' = Ok(collect_compact_text(arg))
  /\ pc' = "done"
  /\ UNCHANGED <<op, arg, gets, ran, today>>

CallExtractHiddenWord ==
  /\ pc = "call"
  /\ op = "extract_hidden_word"
  /\ res' = extract_hidden_word(arg)
  /\ pc' = "done"
  /\ UNCHANGED <<op, arg, gets, ran, today>>

NextText == CallCollectCompactText \/ CallExtractHiddenWord

SpecText == InitText /\ [][NextText]_vars

\* --- claims about the Text Normalizer

\* the positions of s where a whitespace-separated word starts
WordStarts(s) ==
  {i \in 1..Len(s) : s[i] \notin WhiteSpace /\ (i = 1 \/ s[i - 1] \in WhiteSpace)}

\* the word of s that starts at position i
WordAt(s, i) ==
  SubSeq(s, i, SetMin({j \in i..Len(s) : j = Len(s) \/ s[j + 1] \in WhiteSpace}))

\* the k-th smallest element of a set of numbers
Nth(S, k) == CHOOSE x \in S : Cardinality({y \in S : y < x}) = k - 1

\* the whitespace-separated words of s, in order
WordsOf(s) == [k \in 1..Cardinality(WordStarts(s)) |-> WordAt(s, Nth(WordStarts(s), k))]

\* the words of every text node, node after node
WordsOfEach(nodes) == Concat([n \in 1..Len(nodes) |-> WordsOf(nodes[n])])

\* no doubled, leading or trailing whitespace, and only plain spaces between words
SingleSpaced(s) ==
  /\ \A i \in 1..Len(s) : s[i] \in WhiteSpace =>
       /\ s[i] = " "
       /\ 1 < i /\ i < Len(s)
       /\ s[i - 1] \notin WhiteSpace /\ s[i + 1] \notin WhiteSpace

\* C10 as stated: the output is the single-spaced text of the words of the
\* CONCATENATION of the text nodes ("12" and "34" give "1234").
C10_WordsOfConcatenation ==
  (pc = "done" /\ op = "collect_compact_text") =>
    /\ res.tag = "ok"
    /\ SingleSpaced(res.val)
    /\ WordsOf(res.val) = WordsOf(Concat(arg))

\* C10 amended: the output is the single-spaced text of the words of each
\* text node taken separately, node after node (so "12" and "34" give
\* "12 34"); it has no doubled, leading or trailing whitespace, and an
\* element without text gives the empty string.
C10_WordsOfEachNode ==
  (pc = "done" /\ op = "collect_compact_text") =>
    /\ res.tag = "ok"
    /\ SingleSpaced(res.val)
    /\ WordsOf(res.val) = WordsOfEach(arg)
    /\ arg = <<>> => res.val = <<>>

\* two text nodes that meet without whitespace have been collapsed
C10_Witness ==
  /\ pc = "done" /\ op = "collect_compact_text"
  /\ arg = << <<"1","2">>, <<"3","4">> >>
  /\ res = Ok(<<"1","2"," ","3","4">>)

\* the positions of the ASCII letters of s
LetterPositions(s) ==
  {i \in 1..Len(s) : \E k \in 1..26 : s[i] \in {LowerAlpha[k], UpperAlpha[k]}}

\* c in upper case, for an ASCII letter c
UpperOf(c) == UpperAlpha[CHOOSE k \in 1..26 : c \in {LowerAlpha[k], UpperAlpha[k]}]

\* C9: extract_hidden_word returns a value iff the element's text holds
\* exactly 5 ASCII letters; the value is those letters, uppercased, in their
\* order ("  sT-o#rM " gives "STORM", "toolong" gives nothing), so a returned
\* word is exactly 5 uppercase ASCII letters.
C9_FiveLetters ==
  (pc = "done" /\ op = "extract_hidden_word") =>
    LET text == Concat(arg)
        at == LetterPositions(text)
    IN /\ (res.tag = "some") <=> (Cardinality(at) = 5)
       /\ res.tag # "some" => res = [tag |-> "none"]
       /\ res.tag = "some" =>
            /\ Len(res.val) = 5
            /\ \A k \in 1..5 : res.val[k] = UpperOf(text[Nth(at, k)])
            /\ \A k \in 1..5 : \E j \in 1..26 : res.val[k] = UpperAlpha[j]
       /\ arg = << <<" "," ","s","T","-","o","#","r","M"," ">> >> =>
            res = [tag |-> "some", val |-> <<"S","T","O","R","M">>]
       /\ arg = << <<"t","o","o","l","o","n","g">> >> => res = [tag |-> "none"]

\* a word spread over text nodes, with a non-ASCII letter between, was extracted
C9_Witness ==
  /\ pc = "done" /\ op = "extract_hidden_word"
  /\ arg = << <<"s","t","o">>, <<"U+00E9">>, <<"r","m">> >>
  /\ res = [tag |-> "some", val |-> <<"S","T","O","R","M">>]

\* ------------------------------------------------ serde_json::Value

\* A number is kept as serde_json keeps it: an integer that fits i64
\* ("int"), a positive integer above i64::MAX ("u64_above_i64"), or a float.
JNull == [kind |-> "null"]
JString(s) == [kind |-> "string", s |-> s]
JInt(n) == [kind |-> "number", repr |-> "int", n |-> n]
JBigUInt == [kind |-> "number", repr |-> "u64_above_i64"]
JFloat == [kind |-> "number", repr |-> "f64"]
JArray(items) == [kind |-> "array", items |-> items]
\* fields: a function from the keys present to their values
JObject(fields) == [kind |-> "object", fields |-> fields]

\* Value::as_array
as_array(v) == IF v.kind = "array" THEN Some(v.items) ELSE None

\* Value::as_i64
as_i64(v) ==
  IF v.kind = "number" /\ v.repr = "int" THEN Some(v.n) ELSE None

\* Value::as_str
as_str(v) == IF v.kind = "string" THEN Some(v.s) ELSE None

\* Value::get(key): None on a value that is not an object
get(v, key) ==
  IF v.kind = "object" /\ key \in DOMAIN v.fields THEN Some(v.fields[key]) ELSE None

\* ------------------------------------------------------ board_from_json

BoardCells == 81
BoardSide == 9
MaxDigit == 9

\* slice::chunks(n)
chunks(flat, n) ==
  [r \in 1..((Len(flat) + n - 1) \div n) |->
     SubSeq(flat, n * (r - 1) + 1, IF n * r < Len(flat) THEN n * r ELSE Len(flat))]

\* what the loop does with one cell: push its digit, or fail
cell_check(cell, label) ==
  LET number == as_i64(cell)
  IN IF number.tag = "none"
     THEN Err(<<"Encountered non-numeric value in ", label>>)
     ELSE IF ~(0 <= number.val /\ number.val <= MaxDigit)
     THEN Err(<<"Invalid Sudoku digit ", ToString(number.val), " in ", label>>)
     ELSE Ok(number.val)

cell_check_exclusive(cell, label) ==
  LET number == as_i64(cell)
  IN IF number.tag = "none"
     THEN Err(<<"Encountered non-numeric value in ", label>>)
     ELSE IF ~(0 <= number.val /\ number.val < MaxDigit)
     THEN Err(<<"Invalid Sudoku digit ", ToString(number.val), " in ", label>>)
     ELSE Ok(number.val)

\* the loop over the cells: it returns at the first cell that fails, and
\* otherwise has pushed every digit in order
board_cells_exclusive(cells, label) ==
  LET failing == {i \in 1..Len(cells) : cell_check_exclusive(cells[i], label).tag = "err"}
  IN IF failing = {}
     THEN Ok([i \in 1..Len(cells) |-> cell_check_exclusive(cells[i], label).val])
     ELSE cell_check_exclusive(cells[CHOOSE i \in failing : \A j \in failing : i <= j], label)

board_cells(cells, label) ==
  LET failing == {i \in 1..Len(cells) : cell_check(cells[i], label).tag = "err"}
  IN IF failing = {}
     THEN Ok([i \in 1..Len(cells) |-> cell_check(cells[i], label).val])
     ELSE cell_check(cells[CHOOSE i \in failing : \A j \in failing : i <= j], label)

board_from_json_exclusive_range(value, label) ==
  LET cells == as_array(value)
  IN IF cells.tag = "none"
     THEN Err(<<"Sudoku ", label, " data is not an array">>)
     ELSE IF Len(cells.val) # BoardCells
     THEN Err(<<"Sudoku ", label, " expected 81 entries but found ",
                ToString(Len(cells.val))>>)
     ELSE LET flat == board_cells_exclusive(cells.val, label)
          IN IF flat.tag = "err" THEN flat
             ELSE Ok(chunks(flat.val, BoardSide))

board_from_json(value, label) ==
  LET cells == as_array(value)
  IN IF cells.tag = "none"
     THEN Err(<<"Sudoku ", label, " data is not an array">>)
     ELSE IF Len(cells.val) # BoardCells
     THEN Err(<<"Sudoku ", label, " expected 81 entries but found ",
                ToString(Len(cells.val))>>)
     ELSE LET flat == board_cells(cells.val, label)
          IN IF flat.tag = "err" THEN flat
             ELSE Ok(chunks(flat.val, BoardSide))

\* --- inputs: arrays that follow a base pattern of digits except at a few places

BaseCells(n) == [i \in 1..n |-> JInt((i * 7) % 10)]

OverridePlaces == {1, 9, 10, 81}

OverrideValues ==
  { JInt(-1), JInt(10), JInt(0), JFloat, JBigUInt, JString(<<"5">>), JNull }

\* the partial functions from at most MaxOverrides places to override values
Overrides(n) ==
  UNION { [P -> OverrideValues] :
          P \in {Q \in SUBSET (OverridePlaces \cap 1..n) : Cardinality(Q) <= MaxOverrides} }

CellsWith(n, ov) ==
  [i \in 1..n |-> IF i \in DOMAIN ov THEN ov[i] ELSE BaseCells(n)[i]]

BoardLengths == {0, 80, 81, 82}

BoardValues ==
  {JNull, JInt(5), JString(<<"5">>), JObject(<<>>)}
  \cup {JArray(CellsWith(n, ov)) : n \in BoardLengths, ov \in Overrides(82)}

BoardLabels == {"puzzle", "solution"}

InitBoard ==
  /\ pc = "call"
  /\ op = "board_from_json"
  /\ arg \in [value : BoardValues, label : BoardLabels]
  /\ res = Pending
  /\ gets = 0
  /\ ran = <<>>
  /\ today = <<>>

CallBoardFromJson ==
  /\ pc = "call"
  /\ op = "board_from_json"
  /\ res' = board_from_json(arg.value, arg.label)
  /\ pc' = "done"
  /\ UNCHANGED <<op, arg, gets, ran, today>>

NextBoard == CallBoardFromJson

SpecBoard == InitBoard /\ [][NextBoard]_vars

\* --- claims about board_from_json

\* an element that can be read as an integer (a signed 64-bit one)
IsInteger(e) == e.kind = "number" /\ e.repr = "int"

IsDigitCell(e) == IsInteger(e) /\ e.n \in 0..9

\* C3: board_from_json succeeds iff the value is an array of exactly 81
\* integers in [0,9], and then returns 9 rows of 9 cells with
\* grid[r][c] = element[9*r + c]; otherwise it fails with the first failing
\* check: not an array, a count other than 81 (the message gives the count),
\* then for the lowest-index offending element non-integer (the message names
\* the label) or out of range (the message gives the value).
C3_DecodeBoard ==
  (pc = "done" /\ op = "board_from_json") =>
    LET v == arg.value
        l == arg.label
    IN IF v.kind # "array"
       THEN res = [tag |-> "err", msg |-> <<"Sudoku ", l, " data is not an array">>]
       ELSE IF Len(v.items) # 81
       THEN res = [tag |-> "err",
                   msg |-> <<"Sudoku ", l, " expected 81 entries but found ",
                             ToString(Len(v.items))>>]
       ELSE IF \A i \in 1..81 : IsDigitCell(v.items[i])
       THEN /\ res.tag = "ok"
            /\ Len(res.val) = 9
            /\ \A r \in 0..8 :
                 /\ Len(res.val[r + 1]) = 9
                 /\ \A c \in 0..8 : res.val[r + 1][c + 1] = v.items[9 * r + c + 1].n
       ELSE LET bad == SetMin({i \in 1..81 : ~IsDigitCell(v.items[i])})
            IN IF ~IsInteger(v.items[bad])
               THEN res = [tag |-> "err", msg |-> <<"Encountered non-numeric value in ", l>>]
               ELSE res = [tag |-> "err",
                           msg |-> <<"Invalid Sudoku digit ", ToString(v.items[bad].n),
                                     " in ", l>>]

\* a full board whose first row starts 7, 4, 1 and ends with 3 was decoded
C3_Witness ==
  /\ pc = "done" /\ op = "board_from_json"
  /\ arg.value = JArray(BaseCells(81))
  /\ res.tag = "ok"
  /\ res.val[1] = <<7, 4, 1, 8, 5, 2, 9, 6, 3>>
  /\ res.val[9][9] = 7

\* ------------------------------------------- the Wordle row scan

\* The parsed page, as the selectors see it: the "table tbody tr" rows in
\* document order; a row is its "td" cells in document order; a cell is its
\* text nodes (text) and its span[style*="display:none"] descendants in
\* document order (spans), each span being its text nodes.

Cell(text, spans) == [text |-> text, spans |-> spans]

StrToday == <<"t","o","d","a","y">>
MsgAnswerNotFound == <<"Could not find Wordle answer on page">>

\* Iterator::find_map(extract_hidden_word): the first span that gives a word
RECURSIVE find_map_hidden_word(_)
find_map_hidden_word_last(spans) ==
  IF spans = <<>> THEN None
  ELSE LET later == find_map_hidden_word(Tail(spans))
       IN IF later.tag = "some" THEN later ELSE extract_hidden_word(Head(spans))

find_map_hidden_word(spans) ==
  IF spans = <<>> THEN None
  ELSE LET word == extract_hidden_word(Head(spans))
       IN IF word.tag = "some" THEN word ELSE find_map_hidden_word(Tail(spans))

\* the body of the loop for one row: Some(WordleData) when the row returns
scan_row(row, now) ==
  LET date_cell == IF Len(row) >= 1 THEN collect_compact_text(row[1].text) ELSE <<>>
      puzzle_cell == IF Len(row) >= 2 THEN collect_compact_text(row[2].text) ELSE <<>>
      word == IF Len(row) >= 3 THEN find_map_hidden_word(row[3].spans) ELSE None
      date_label == IF contains(to_ascii_lowercase(date_cell), StrToday) THEN now ELSE now
  IN IF word.tag = "some"
     THEN Some([date |-> date_label, word |-> word.val,
                puzzle |-> format_puzzle_label(puzzle_cell)])
     ELSE None

\* the loop over the rows, and the error after it
RECURSIVE scan_rows(_, _)
scan_rows_fail_on_short_row(rows, now) ==
  IF rows = <<>> THEN Err(MsgAnswerNotFound)
  ELSE IF Len(Head(rows)) < 3 THEN Err(MsgAnswerNotFound)
  ELSE LET found == scan_row(Head(rows), now)
       IN IF found.tag = "some" THEN Ok(found.val) ELSE scan_rows(Tail(rows), now)

scan_rows(rows, now) ==
  IF rows = <<>> THEN Err(MsgAnswerNotFound)
  ELSE LET found == scan_row(Head(rows), now)
       IN IF found.tag = "some" THEN Ok(found.val) ELSE scan_rows(Tail(rows), now)

\* --- the rows a page is made of

TextDate == << <<"\n"," "," ">>, <<"T","o","d","a","y">>, <<"\n">> >>
TextOldDate == << <<"J","u","n"," ","5">> >>
SpanStorm == << <<"s","t","o","r","m">> >>
SpanCrane == << <<" ","C","r","a">>, <<"n","e","\n">> >>
SpanGhost == << <<"g","h","o","s","t">> >>
SpanTooLong == << StrTooLong >>
SpanEmpty == <<>>

RowChoices ==
  { <<>>,
    << Cell(TextDate, <<>>) >>,
    \* two cells only, the second holding a hidden five-letter word
    << Cell(TextDate, <<>>), Cell(<< <<"#","7">> >>, <<SpanGhost>>) >>,
    \* an answer cell without any hidden span
    << Cell(TextOldDate, <<>>), Cell(<< <<"8">> >>, <<>>), Cell(<< <<"?">> >>, <<>>) >>,
    \* hidden spans that give no word
    << Cell(TextOldDate, <<>>), Cell(<< <<"9">> >>, <<>>),
       Cell(<< StrTooLong >>, <<SpanTooLong, SpanEmpty>>) >>,
    \* a span without a word before one with a word
    << Cell(TextDate, <<>>), Cell(<< <<"#","1","2","3","4">> >>, <<>>),
       Cell(<<>>, <<SpanTooLong, SpanStorm>>) >>,
    \* two spans with a word
    << Cell(TextOldDate, <<>>), Cell(<< <<"W","o","r","d","l","e"," ">>, <<"9","9","9">> >>, <<>>),
       Cell(<<>>, <<SpanCrane, SpanStorm>>) >>,
    \* four cells, the first and the fourth holding hidden words too
    << Cell(TextDate, <<SpanStorm>>), Cell(<< <<"1","2">>, <<"3","4">> >>, <<>>),
       Cell(<<>>, <<SpanGhost>>), Cell(<<>>, <<SpanCrane>>) >> }

WordlePages == SeqsUpTo(RowChoices, MaxRows)

StrDateA == <<"2","0","2","4","-","0","6","-","0","5">>
StrDateB == <<"2","0","2","4","-","0","6","-","0","6">>

\* chrono::Local::now().format("%Y-%m-%d")
LocalDates == {StrDateA, StrDateB}

\* ------------------------------------------- the Sudoku extraction

\* The response body of the Sudoku page: html is its text, in which the
\* one character "$JSON" stands for the serialised text of the value json.
\* serde_json::from_str accepts a blob that is exactly that text.
serde_json_from_str(blob, json) ==
  IF blob = <<"$JSON">> THEN Ok(json)
  ELSE Err(<<"Failed to parse gameData JSON: ", "serde_json::Error">>)

MsgMissingHard == <<"Missing hard puzzle block">>
MsgMissingPuzzleData == <<"Missing puzzle_data block">>
MsgMissingPuzzle == <<"Missing puzzle array">>
MsgMissingSolution == <<"Missing solution array">>

StrHard == <<"H","a","r","d">>

\* Option<&Value>::and_then(as_str).unwrap_or(default)
str_or(opt, default) ==
  IF opt.tag = "some" /\ as_str(opt.val).tag = "some" THEN as_str(opt.val).val
  ELSE default

\* lines 193-235: from the parsed root to the result
sudoku_from_root_solution_looked_up_first(root) ==
  LET display_date == str_or(get(root, "displayDate"), <<>>)
      hard == get(root, "hard")
  IN IF hard.tag = "none" THEN Err(MsgMissingHard)
     ELSE
       LET difficulty == str_or(get(hard.val, "difficulty"), StrHard)
           print_date == str_or(get(hard.val, "print_date"), display_date)
           puzzle_data == get(hard.val, "puzzle_data")
       IN IF puzzle_data.tag = "none" THEN Err(MsgMissingPuzzleData)
          ELSE
            LET puzzle_value == get(puzzle_data.val, "puzzle")
                solution_value == get(puzzle_data.val, "solution")
            IN IF puzzle_value.tag = "none" THEN Err(MsgMissingPuzzle)
               ELSE IF solution_value.tag = "none" THEN Err(MsgMissingSolution)
               ELSE
                 LET puzzle == board_from_json(puzzle_value.val, "puzzle")
                 IN IF puzzle.tag = "err" THEN puzzle
                    ELSE
                      LET solution == board_from_json(solution_value.val, "solution")
                      IN IF solution.tag = "err" THEN solution
                         ELSE Ok([display_date |-> display_date,
                                  print_date |-> print_date,
                                  difficulty |-> difficulty,
                                  puzzle |-> puzzle.val,
                                  solution |-> solution.val])

sudoku_from_root(root) ==
  LET display_date == str_or(get(root, "displayDate"), <<>>)
      hard == get(root, "hard")
  IN IF hard.tag = "none" THEN Err(MsgMissingHard)
     ELSE
       LET difficulty == str_or(get(hard.val, "difficulty"), StrHard)
           print_date == str_or(get(hard.val, "print_date"), display_date)
           puzzle_data == get(hard.val, "puzzle_data")
       IN IF puzzle_data.tag = "none" THEN Err(MsgMissingPuzzleData)
          ELSE
            LET puzzle_value == get(puzzle_data.val, "puzzle")
            IN IF puzzle_value.tag = "none" THEN Err(MsgMissingPuzzle)
               ELSE
                 LET puzzle == board_from_json(puzzle_value.val, "puzzle")
                 IN IF puzzle.tag = "err" THEN puzzle
                    ELSE
                      LET solution_value == get(puzzle_data.val, "solution")
                      IN IF solution_value.tag = "none" THEN Err(MsgMissingSolution)
                         ELSE
                           LET solution == board_from_json(solution_value.val, "solution")
                           IN IF solution.tag = "err" THEN solution
                              ELSE Ok([display_date |-> display_date,
                                       print_date |-> print_date,
                                       difficulty |-> difficulty,
                                       puzzle |-> puzzle.val,
                                       solution |-> solution.val])

\* lines 189-235: from the body text to the result
sudoku_from_body(body) ==
  LET json_blob == extract_game_data_blob(body.html)
  IN IF json_blob.tag = "err" THEN json_blob
     ELSE LET root == serde_json_from_str(json_blob.val, body.json)
          IN IF root.tag = "err" THEN root ELSE sudoku_from_root(root.val)

\* --- the Sudoku pages

\* a function given by its key/value pairs
FnOf(pairs) == [k \in {q[1] : q \in pairs} |-> (CHOOSE q \in pairs : q[1] = k)[2]]

\* what one optional key of an object may hold: nothing, or one of vals
Optional(key, vals) == {{}} \cup {{<<key, v>>} : v \in vals}

SolvedCells == [i \in 1..81 |-> JInt(1 + (i % 9))]

BoardChoices ==
  { JArray(BaseCells(81)), JArray(SolvedCells), JArray(BaseCells(80)),
    JArray(CellsWith(81, [i \in {10} |-> JInt(10)])) }

PuzzleDataValues ==
  { JString(<<"x">>) }
  \cup { JObject(FnOf(p \cup q)) :
           p \in Optional("puzzle", BoardChoices),
           q \in Optional("solution", BoardChoices) }

HardValues ==
  { JNull }
  \cup { JObject(FnOf(d \cup p \cup q)) :
           d \in Optional("difficulty", {JString(<<"E","a","s","y">>)}),
           p \in Optional("print_date", {JString(StrDateB), JInt(5)}),
           q \in Optional("puzzle_data", PuzzleDataValues) }

RootValues ==
  { JNull, JArray(<<>>) }
  \cup { JObject(FnOf(d \cup h)) :
           d \in Optional("displayDate", {JString(StrDateA)}),
           h \in Optional("hard", HardValues) }

HtmlWellFormed == <<"<","p",">">> \o MARKER \o <<"$JSON", ";">> \o StrScriptEnd
HtmlSpaced == MARKER \o <<"\n", "$JSON", " ", ";", ";", "\n">> \o StrScriptEnd \o MARKER

HtmlBroken ==
  { \* no marker
    <<"$JSON", ";">> \o StrScriptEnd,
    \* no terminator after the marker
    StrScriptEnd \o MARKER \o <<"$JSON", ";">>,
    \* not JSON: text follows the value
    MARKER \o <<"$JSON", "}", ";">> \o StrScriptEnd,
    \* not JSON: nothing between marker and terminator
    MARKER \o <<";">> \o StrScriptEnd }

SudokuPages ==
  [html : {HtmlWellFormed, HtmlSpaced}, json : RootValues]
  \cup [html : HtmlBroken, json : {JObject(<<>>)}]

\* ------------------------------------------------------ the two commands

Commands == {"fetch_wordle_answer", "fetch_sudoku_puzzle"}

StageOrder == <<"build", "fetch", "status", "read", "extract">>

\* what a response may carry as its status
Statuses == {200, 204, 404, 500}

\* StatusCode::is_success
is_success(status) == 200 <= status /\ status <= 299

\* Display of a StatusCode: the code and its canonical reason
StatusText(status) ==
  CASE status = 200 -> "200 OK"
    [] status = 204 -> "204 No Content"
    [] status = 404 -> "404 Not Found"
    [] status = 500 -> "500 Internal Server Error"

MsgBuild(cmd) == "Failed to build HTTP client: "

MsgFetch(cmd) ==
  IF cmd = "fetch_wordle_answer" THEN "Failed to fetch page: "
  ELSE "Failed to fetch Sudoku page: "

MsgStatus(cmd) ==
  IF cmd = "fetch_wordle_answer" THEN "Wordfinder responded with HTTP "
  ELSE "NYT Sudoku responded with HTTP "

MsgRead(cmd) ==
  IF cmd = "fetch_wordle_answer" THEN "Failed to read response: "
  ELSE "Failed to read Sudoku response: "

BodiesOf(cmd) ==
  IF cmd = "fetch_wordle_answer" THEN WordlePages ELSE SudokuPages

NoResponse == [status |-> 0]

InitFetch ==
  /\ pc = "idle"
  /\ op = "none"
  /\ arg = NoResponse
  /\ res = Pending
  /\ gets = 0
  /\ ran = <<>>
  /\ today = <<>>

\* the front end invokes one of the two commands
Invoke(cmd) ==
  /\ pc = "idle"
  /\ op' = cmd
  /\ pc' = "build"
  /\ UNCHANGED <<arg, res, gets, ran, today>>

\* reqwest::Client::builder()...build()
BuildClient(cmd) ==
  /\ pc = "build" /\ op = cmd
  /\ ran' = Append(ran, "build")
  /\ \/ /\ pc' = "send"
        /\ UNCHANGED res
     \/ /\ res' = Err(<<MsgBuild(cmd), "reqwest::Error">>)
        /\ pc' = "done"
  /\ UNCHANGED <<op, arg, gets, today>>

\* client.get(url).send(): the request is issued and the call suspends at
\* .await, with one GET out and no response yet
Send(cmd) ==
  /\ pc = "send" /\ op = cmd
  /\ gets' = gets + 1
  /\ ran' = Append(ran, "fetch")
  /\ pc' = "sending"
  /\ UNCHANGED <<op, arg, res, today>>

\* the call resumes from send().await with the response or with the error,
\* which is returned
AwaitSendRetrying(cmd) ==
  /\ pc = "sending" /\ op = cmd
  /\ \/ /\ \E st \in Statuses : arg' = [status |-> st]
        /\ pc' = "status"
        /\ UNCHANGED <<res, ran>>
     \/ /\ gets < 2
        /\ pc' = "send"
        /\ ran' = SubSeq(ran, 1, Len(ran) - 1)
        /\ UNCHANGED <<arg, res>>
     \/ /\ res' = Err(<<MsgFetch(cmd), "reqwest::Error">>)
        /\ pc' = "done"
        /\ UNCHANGED <<arg, ran>>
  /\ UNCHANGED <<op, gets, today>>

AwaitSend(cmd) ==
  /\ pc = "sending" /\ op = cmd
  /\ \/ /\ \E st \in Statuses : arg' = [status |-> st]
        /\ pc' = "status"
        /\ UNCHANGED res
     \/ /\ res' = Err(<<MsgFetch(cmd), "reqwest::Error">>)
        /\ pc' = "done"
        /\ UNCHANGED arg
  /\ UNCHANGED <<op, gets, ran, today>>

\* if !response.status().is_success() { return Err(..) }
CheckStatus(cmd) ==
  /\ pc = "status" /\ op = cmd
  /\ ran' = Append(ran, "status")
  /\ IF is_success(arg.status)
     THEN pc' = "read" /\ UNCHANGED res
     ELSE res' = Err(<<MsgStatus(cmd), StatusText(arg.status)>>) /\ pc' = "done"
  /\ UNCHANGED <<op, arg, gets, today>>

\* response.text(): the read begins and the call suspends at .await, with
\* no body yet
ReadBody(cmd) ==
  /\ pc = "read" /\ op = cmd
  /\ ran' = Append(ran, "read")
  /\ pc' = "reading"
  /\ UNCHANGED <<op, arg, res, gets, today>>

\* the call resumes from text().await with the body or with the error,
\* which is returned
AwaitBody(cmd) ==
  /\ pc = "reading" /\ op = cmd
  /\ \/ /\ \E body \in BodiesOf(cmd) : arg' = [status |-> arg.status, body |-> body]
        /\ pc' = "extract"
        /\ UNCHANGED res
     \/ /\ res' = Err(<<MsgRead(cmd), "reqwest::Error">>)
        /\ pc' = "done"
        /\ UNCHANGED arg
  /\ UNCHANGED <<op, gets, ran, today>>

\* get_wordle_answer_impl from Html::parse_document on: the row scan
ExtractWordle ==
  /\ pc = "extract" /\ op = "fetch_wordle_answer"
  /\ ran' = Append(ran, "extract")
  /\ \E now \in LocalDates :
       /\ res' = scan_rows(arg.body, now)
       /\ today' = IF res'.tag = "ok" THEN now ELSE today
  /\ pc' = "done"
  /\ UNCHANGED <<op, arg, gets>>

\* fetch_sudoku_puzzle_impl from extract_game_data_blob on
ExtractSudoku ==
  /\ pc = "extract" /\ op = "fetch_sudoku_puzzle"
  /\ ran' = Append(ran, "extract")
  /\ res' = sudoku_from_body(arg.body)
  /\ pc' = "done"
  /\ UNCHANGED <<op, arg, gets, today>>

NextFetch ==
  \/ \E cmd \in Commands :
       \/ Invoke(cmd)
       \/ BuildClient(cmd)
       \/ Send(cmd)
       \/ AwaitSend(cmd)
       \/ CheckStatus(cmd)
       \/ ReadBody(cmd)
       \/ AwaitBody(cmd)
  \/ ExtractWordle
  \/ ExtractSudoku

SpecFetch == InitFetch /\ [][NextFetch]_vars

\* --- claims about the Wordle Extractor

\* the extraction stage of the Wordle command has run on a page
WordleScanned ==
  /\ pc = "done" /\ op = "fetch_wordle_answer"
  /\ Len(ran) = 5

\* the ASCII letters of a span's text, uppercased, in order
LettersOf(span) ==
  LET text == Concat(span)
      at == LetterPositions(text)
  IN [k \in 1..Cardinality(at) |-> UpperOf(text[Nth(at, k)])]

\* the hidden spans of the row's third cell that hold a five-letter word
WordSpans(row) ==
  IF Len(row) < 3 THEN {}
  ELSE {j \in 1..Len(row[3].spans) : Len(LettersOf(row[3].spans[j])) = 5}

QualifyingRows(rows) == {i \in 1..Len(rows) : WordSpans(rows[i]) # {}}

\* C1: the returned word is the word of the first row, in document order,
\* whose third cell holds a hidden span with a five-letter word, taken from
\* the first such span of that cell; the rows before and after it have no
\* influence on the returned word.
C1_FirstRowFirstSpan ==
  (WordleScanned /\ QualifyingRows(arg.body) # {}) =>
    LET rows == arg.body
        i == SetMin(QualifyingRows(rows))
        j == SetMin(WordSpans(rows[i]))
    IN /\ res.tag = "ok"
       /\ res.val.word = LettersOf(rows[i][3].spans[j])
       \* the same word comes from that row alone, from the page without the
       \* rows before it, and from the page without the rows after it
       /\ \A page \in { <<rows[i]>>, SubSeq(rows, i, Len(rows)), SubSeq(rows, 1, i) } :
            scan_rows(page, today).val.word = res.val.word

\* three rows: the first without a word, the second with a wordless span
\* before "STORM", the third with other words; "STORM" was returned
C1_Witness ==
  /\ WordleScanned
  /\ Len(arg.body) = 3
  /\ QualifyingRows(arg.body) = {2, 3}
  /\ WordSpans(arg.body[2]) = {2}
  /\ res.tag = "ok"
  /\ res.val.word = <<"S","T","O","R","M">>

\* C2: the scan fails with "answer not found", and returns no result, iff no
\* row yields a five-letter hidden word; a row with fewer than 3 cells is
\* skipped and the scan goes on with the next row.
C2_NotFoundIffNoRow ==
  WordleScanned =>
    /\ (res = [tag |-> "err", msg |-> <<"Could not find Wordle answer on page">>])
         <=> (\A i \in 1..Len(arg.body) :
                \/ Len(arg.body[i]) < 3
                \/ \A j \in 1..Len(arg.body[i][3].spans) :
                     Len(LettersOf(arg.body[i][3].spans[j])) # 5)
    /\ res.tag \in {"ok", "err"}
    /\ res.tag = "err" => DOMAIN res = {"tag", "msg"}
    /\ \A k \in 1..Len(arg.body) :
         (Len(arg.body[k]) < 3 /\ QualifyingRows(SubSeq(arg.body, 1, k - 1)) = {}) =>
           res = scan_rows(SubSeq(arg.body, k + 1, Len(arg.body)), today)

\* rows of 0 and of 2 cells came before a row with a word, which was returned
C2_Witness ==
  /\ WordleScanned
  /\ Len(arg.body) = 3
  /\ Len(arg.body[1]) = 0 /\ Len(arg.body[2]) = 2 /\ Len(arg.body[3]) >= 3
  /\ res.tag = "ok"

\* --- claims about the Sudoku Extractor

HasKey(v, k) == v.kind = "object" /\ k \in DOMAIN v.fields

\* the extraction stage of the Sudoku command has run and reached puzzle_data
SudokuReachedPuzzleData ==
  /\ pc = "done" /\ op = "fetch_sudoku_puzzle"
  /\ Len(ran) = 5
  /\ arg.body.html \in {HtmlWellFormed, HtmlSpaced}
  /\ HasKey(arg.body.json, "hard")
  /\ HasKey(arg.body.json.fields["hard"], "puzzle_data")

PuzzleData == arg.body.json.fields["hard"].fields["puzzle_data"]

\* value is an array of 81 integers in [0,9]
Decodable(value) ==
  /\ value.kind = "array"
  /\ Len(value.items) = 81
  /\ \A i \in 1..81 : IsDigitCell(value.items[i])

FourMissingMessagesDistinct ==
  Cardinality({ <<"Missing hard puzzle block">>, <<"Missing puzzle_data block">>,
                <<"Missing puzzle array">>, <<"Missing solution array">> }) = 4

\* C7 as stated: a payload that has `puzzle` and lacks `solution` fails with
\* "missing solution array", whatever `puzzle` holds.
C7_MissingSolutionBeforeDecode ==
  (SudokuReachedPuzzleData /\ HasKey(PuzzleData, "puzzle")
     /\ ~HasKey(PuzzleData, "solution")) =>
    res = [tag |-> "err", msg |-> <<"Missing solution array">>]

\* C7 amended: the four missing-field failures have distinct messages; an
\* absent `puzzle` fails with "missing puzzle array" before any decoding; an
\* absent `solution` fails with "missing solution array" only when `puzzle`
\* is present and decodes; when `puzzle` is present and does not decode, the
\* failure is the decode error of `puzzle`, `solution` being absent or not;
\* with both present the call succeeds iff both decode.
C7_MissingFieldOrder ==
  /\ FourMissingMessagesDistinct
  /\ (pc = "done" /\ op = "fetch_sudoku_puzzle" /\ Len(ran) = 5
        /\ arg.body.html \in {HtmlWellFormed, HtmlSpaced}) =>
       IF ~HasKey(arg.body.json, "hard")
       THEN res = [tag |-> "err", msg |-> <<"Missing hard puzzle block">>]
       ELSE IF ~HasKey(arg.body.json.fields["hard"], "puzzle_data")
       THEN res = [tag |-> "err", msg |-> <<"Missing puzzle_data block">>]
       ELSE IF ~HasKey(PuzzleData, "puzzle")
       THEN res = [tag |-> "err", msg |-> <<"Missing puzzle array">>]
       ELSE IF ~Decodable(PuzzleData.fields["puzzle"])
       THEN /\ res.tag = "err"
            /\ res.msg[1] \in {"Sudoku ", "Encountered non-numeric value in ",
                               "Invalid Sudoku digit "}
            /\ \E k \in 1..Len(res.msg) : res.msg[k] = "puzzle"
       ELSE IF ~HasKey(PuzzleData, "solution")
       THEN res = [tag |-> "err", msg |-> <<"Missing solution array">>]
       ELSE IF ~Decodable(PuzzleData.fields["solution"])
       THEN /\ res.tag = "err"
            /\ \E k \in 1..Len(res.msg) : res.msg[k] = "solution"
       ELSE res.tag = "ok"

\* a payload whose `puzzle` has 80 entries and whose `solution` is absent
\* failed with the count error of `puzzle`
C7_Witness ==
  /\ SudokuReachedPuzzleData
  /\ HasKey(PuzzleData, "puzzle")
  /\ ~HasKey(PuzzleData, "solution")
  /\ res = [tag |-> "err",
            msg |-> <<"Sudoku ", "puzzle", " expected 81 entries but found ", "80">>]

\* --- claims about the two commands as pipelines

\* the number of stages that have run when the call stands at pc
StagesBefore(at) ==
  CASE at = "idle" -> 0
    [] at = "build" -> 0
    [] at = "send" -> 1
    [] at = "sending" -> 2
    [] at = "status" -> 2
    [] at = "read" -> 3
    [] at = "reading" -> 4
    [] at = "extract" -> 4

\* the fields of a typed result of the command
ResultFields(cmd) ==
  IF cmd = "fetch_wordle_answer" THEN {"date", "word", "puzzle"}
  ELSE {"display_date", "print_date", "difficulty", "puzzle", "solution"}

\* C8 as stated: every execution issues exactly one HTTP GET.
C8_ExactlyOneGet ==
  pc = "done" => gets = 1

\* C8 amended: an execution issues at most one HTTP GET, and exactly one
\* once its client was built (none when the client build fails); the stages
\* run in the order build, fetch, status check, body read, extraction, the
\* call suspending once in the fetch and once in the body read; the
\* first stage that fails (a non-success status included) ends the call with
\* an error and no stage runs after it; the call ends in exactly one of a
\* complete typed result and an error message.
C8_FailFast ==
  /\ gets <= 1
  /\ gets = (IF Len(ran) >= 2 THEN 1 ELSE 0)
  /\ Len(ran) <= 5
  /\ ran = SubSeq(<<"build", "fetch", "status", "read", "extract">>, 1, Len(ran))
  /\ (pc = "done") <=> (res.tag \in {"ok", "err"})
  /\ pc # "done" =>
       /\ res = [tag |-> "pending"]
       /\ Len(ran) = StagesBefore(pc)
  \* a call that has not ended can take its next stage
  /\ pc \in {"build", "send", "sending", "status", "read", "reading"} =>
       ENABLED NextFetch
  \* suspended at send().await: the one GET is out, no response is in hand
  /\ pc = "sending" => (gets = 1 /\ arg = [status |-> 0])
  \* suspended at text().await: the status was a success, no body is in hand
  /\ pc = "reading" => (arg.status \in 200..299 /\ DOMAIN arg = {"status"})
  /\ pc = "extract" => (op \in Commands /\ arg.body \in BodiesOf(op))
  /\ (Len(ran) >= 3 /\ ~(arg.status \in 200..299)) =>
       /\ pc = "done" /\ Len(ran) = 3 /\ res.tag = "err"
       /\ res.msg[2] = StatusText(arg.status)
  /\ pc = "done" =>
       /\ ~ENABLED NextFetch
       /\ res.tag = "ok" =>
            /\ Len(ran) = 5
            /\ DOMAIN res = {"tag", "val"}
            /\ DOMAIN res.val = ResultFields(op)
       /\ res.tag = "err" =>
            /\ DOMAIN res = {"tag", "msg"}
            /\ Len(ran) >= 1

\* a 404 response ended the call at the status check, after one GET
C8_Witness ==
  /\ pc = "done"
  /\ op = "fetch_sudoku_puzzle"
  /\ gets = 1
  /\ ran = <<"build", "fetch", "status">>
  /\ res = [tag |-> "err", msg |-> <<"NYT Sudoku responded with HTTP ", "404 Not Found">>]

====
